---- MODULE Spec2Model ----
(***************************************************************************)
(* A model of src/ddh_psi_sum.py: the DDH-based private intersection-sum   *)
(* protocol (DDHGroup, Party, Party1, Party2, run_protocol).               *)
(*                                                                         *)
(* Modelling conventions.                                                  *)
(*  - The curve is a small prime-order curve y^2 = x^3 + 7x + 7 over F_13  *)
(*    (group order 11 < field size 13, as for P-256 where q < p); a point  *)
(*    is a record [ok, x, y] and ok = FALSE stands for a raised exception. *)
(*  - The library calls are modelled by their contract: to_key() and       *)
(*    from_encoded_point() raise ValueError for coordinates that are not   *)
(*    on the curve (hash_to_curve relies on exactly this ValueError),      *)
(*    EllipticCurvePublicNumbers(x, y, curve) only stores the integers,    *)
(*    derive_private_key raises for a scalar outside [1, q-1].  A call the *)
(*    source writes with a name or an arity the library does not have      *)
(*    (to_key, the two-argument EllipticCurvePublicNumbers, key_pair as an *)
(*    object) is read as the library call it stands for; self.generator,   *)
(*    which no method reads, is left out.                                  *)
(*  - SHA-256 is a fixed deterministic mixing function Digest.             *)
(*  - A Paillier ciphertext is [m, rs]: the plaintext residue and the set  *)
(*    of encryption randomness it was built from; encrypt draws a fresh    *)
(*    randomness (the counter rng), addition adds the plaintexts modulo    *)
(*    the plaintext modulus and unites the randomness.  Numbers are        *)
(*    encoded as the phe library encodes them: up to max_int = n/3 - 1;    *)
(*    decrypt returns a residue up to max_int as it is, a residue from     *)
(*    n - max_int as a negative number, and raises OverflowError between.  *)
(***************************************************************************)
EXTENDS Integers, Sequences, FiniteSets, TLC

\* ------------------------------------------------------------------ bounds

\* Party2's values t are drawn from 1..MaxVal.
MaxVal == 2
\* Party2 holds at most MaxPairs pairs.
MaxPairs == 2
\* The harness of SpecApi makes at most MaxCalls method calls.
MaxCalls == 3
\* run_protocol is called at most MaxRuns times on one pair of parties.
MaxRuns == 2

\* ------------------------------------------------------- program constants

\* self.curve.field_size: the prime of the field (line 12, used lines 25, 55).
FieldSize == 13
\* The curve equation y^2 = x^3 + CurveA*x + CurveB of self.curve (line 12).
CurveA == 7
CurveB == 7
\* The order q of the curve group (derive_private_key's range, line 36).
GroupOrder == 11
\* range(1000) of hash_to_curve (line 22).
HashTries == 1000
\* The plaintext modulus of the Paillier key (n_length=1536, line 59).
PlainModulus == 16

Identifiers == {"user1", "user2"}
Seeds == {"seedA", "seedB"}
\* The private exponents random.randint(1, field_size - 1) can draw, sampled
\* at the ends of the range and around the group order.
Scalars == {1, 2, GroupOrder, FieldSize - 1}
Values == 1..MaxVal

\* ------------------------------------------------------------------ group

\* A raised exception where a point was expected.
RaisedPoint == [ok |-> FALSE, x |-> 0, y |-> 0]

Numbers(x, y) == [ok |-> TRUE, x |-> x, y |-> y]

\* The library's validation of public numbers (to_key, from_encoded_point).
OnCurve(x, y) ==
    /\ x \in 0..(FieldSize - 1)
    /\ y \in 0..(FieldSize - 1)
    /\ (y * y) % FieldSize = (x * x * x + CurveA * x + CurveB) % FieldSize

CurvePoints ==
    {pt \in [ok : {TRUE}, x : 0..(FieldSize - 1), y : 0..(FieldSize - 1)] :
        OnCurve(pt.x, pt.y)}

\* SHA256(seed + identifier + i.to_bytes(4, 'big')) % field_size (lines 21-25).
SeedCode(seed) == IF seed = "seedA" THEN 0 ELSE 3
IdCode(identifier) ==
    CASE identifier = "user1" -> 1
      [] identifier = "user2" -> 3
      [] identifier = "user3" -> 4
      [] identifier = "user0" -> 0
Digest(seed, identifier, i) ==
    ((SeedCode(seed) + IdCode(identifier)) * (i + 1)) % FieldSize

\* The point the library builds from an x-coordinate alone (line 28): the
\* on-curve point with that x and even y; ValueError when there is none.
PointFromX(x) ==
    IF \E y \in 0..(FieldSize - 1) : OnCurve(x, y) /\ y % 2 = 0
    THEN Numbers(x, CHOOSE y \in 0..(FieldSize - 1) : OnCurve(x, y) /\ y % 2 = 0)
    ELSE RaisedPoint

RECURSIVE HashLoop(_, _, _)
HashLoop(identifier, seed, i) ==
    IF i >= HashTries
    THEN RaisedPoint
    ELSE LET point == PointFromX(Digest(seed, identifier, i))
         IN  IF point.ok THEN point ELSE HashLoop(identifier, seed, i + 1)

\* Mutant of hash_to_curve: the counter starts at 1.
hash_to_curve_FromOne(identifier, seed) == HashLoop(identifier, seed, 1)

hash_to_curve(identifier, seed) == HashLoop(identifier, seed, 0)

\* The loop of lines 40-45: n more coordinate-wise additions of the point.
RECURSIVE ExpLoop(_, _, _)
ExpLoop(result, public_point, n) ==
    IF n = 0
    THEN result
    ELSE ExpLoop(Numbers(result.x + public_point.x, result.y + public_point.y),
                 public_point, n - 1)

exponentiate(point, exponent) ==
    IF exponent \notin 1..(GroupOrder - 1)
    THEN RaisedPoint                          \* derive_private_key, line 36
    ELSE IF ~ OnCurve(point.x, point.y)
    THEN RaisedPoint                          \* point.to_key(), line 37
    ELSE ExpLoop(Numbers(point.x, point.y), point, exponent - 1)

\* e.to_key().public_bytes(X962, CompressedPoint): <<prefix, x>>.
RaisedBytes == [ok |-> FALSE, bytes |-> <<0, 0>>]

EncodePoint(point) ==
    IF OnCurve(point.x, point.y)
    THEN [ok |-> TRUE, bytes |-> <<2 + (point.y % 2), point.x>>]
    ELSE RaisedBytes

\* EllipticCurvePublicKey.from_encoded_point(curve, bytes).public_numbers().
DecodePoint(bytes) ==
    IF /\ bytes[1] \in {2, 3}
       /\ \E y \in 0..(FieldSize - 1) : OnCurve(bytes[2], y) /\ y % 2 = bytes[1] - 2
    THEN Numbers(bytes[2],
                 CHOOSE y \in 0..(FieldSize - 1) :
                     OnCurve(bytes[2], y) /\ y % 2 = bytes[1] - 2)
    ELSE RaisedPoint

\* ----------------------------------------------------------------- cipher

NoKey == [owner |-> "none", n |-> 0]
P2PublicKey == [owner |-> "P2", n |-> PlainModulus]
P2KeyPair == [public_key |-> P2PublicKey, private_key |-> "sk2"]
NoKeyPair == [public_key |-> NoKey, private_key |-> "none"]

\* public_key.encrypt(m) with fresh randomness r.
Encrypt(public_key, m, r) ==
    [pk |-> public_key, m |-> m % public_key.n, rs |-> {r}]

\* c1 + c2 on EncryptedNumbers of one key.
AddCipher(c1, c2) ==
    [pk |-> c1.pk, m |-> (c1.m + c2.m) % c1.pk.n, rs |-> c1.rs \cup c2.rs]

\* PaillierPublicKey.max_int: a third of the residues hold the non-negative
\* numbers, a third the negative ones, the third between detects overflow.
MaxInt(public_key) == (public_key.n \div 3) - 1

\* EncodedNumber.encode accepts m (it raises ValueError beyond max_int).
Encodable(public_key, m) == m <= MaxInt(public_key)

RaisedNumber == [ok |-> FALSE, value |-> 0]

\* private_key.decrypt(c): EncodedNumber.decode of the residue.
Decrypt(key_pair, c) ==
    IF c.m <= MaxInt(key_pair.public_key)
    THEN [ok |-> TRUE, value |-> c.m]
    ELSE IF c.m >= key_pair.public_key.n - MaxInt(key_pair.public_key)
         THEN [ok |-> TRUE, value |-> c.m - key_pair.public_key.n]
         ELSE RaisedNumber

NoCipher == [pk |-> NoKey, m |-> 0, rs |-> {}]

\* ---------------------------------------------------------------- helpers

\* random.shuffle, and the iteration order of a Python set.
Perms(n) == {f \in [1..n -> 1..n] : \A i, j \in 1..n : i # j => f[i] # f[j]}
Permute(list, perm) == [i \in 1..Len(list) |-> list[perm[i]]]
Orders(S) ==
    {f \in [1..Cardinality(S) -> S] :
        \A i, j \in 1..Cardinality(S) : i # j => f[i] # f[j]}

\* ---------------------------------------------------------- Party1.round1

RaisedRound1 == [ok |-> FALSE, result |-> <<>>]

\* order: the iteration order of self.identifiers; shuffle: random.shuffle.
round1(p, order, shuffle) ==
    LET hashed == [i \in 1..Len(order) |-> hash_to_curve(order[i], p.seed)]
        exponentiated ==
            [i \in 1..Len(order) |->
                IF hashed[i].ok THEN exponentiate(hashed[i], p.k) ELSE RaisedPoint]
        result ==
            [i \in 1..Len(order) |->
                IF exponentiated[i].ok THEN EncodePoint(exponentiated[i])
                ELSE RaisedBytes]
    IN  IF \E i \in 1..Len(order) : ~ result[i].ok
        THEN RaisedRound1
        ELSE [ok |-> TRUE,
              result |-> Permute([i \in 1..Len(order) |-> result[i].bytes], shuffle)]

\* ---------------------------------------------------------- Party2.round2

RaisedZ == [ok |-> FALSE, z |-> <<>>]

\* Mutant of Round2Z: a point that does not decode (or does not exponentiate)
\* is skipped and the loop goes on.
RECURSIVE Round2Z_SkipBad(_, _, _)
Round2Z_SkipBad(p, v_hashed, z) ==
    IF v_hashed = <<>>
    THEN [ok |-> TRUE, z |-> z]
    ELSE LET point == DecodePoint(Head(v_hashed))
             z_point == IF point.ok THEN exponentiate(point, p.k) ELSE RaisedPoint
             z_bytes == IF z_point.ok THEN EncodePoint(z_point) ELSE RaisedBytes
         IN  IF z_bytes.ok
             THEN Round2Z_SkipBad(p, Tail(v_hashed), Append(z, z_bytes.bytes))
             ELSE Round2Z_SkipBad(p, Tail(v_hashed), z)

\* The loop of lines 115-119 over the rest of v_hashed, z so far.
RECURSIVE Round2Z(_, _, _)
Round2Z(p, v_hashed, z) ==
    IF v_hashed = <<>>
    THEN [ok |-> TRUE, z |-> z]
    ELSE LET point == DecodePoint(Head(v_hashed))
             z_point == IF point.ok THEN exponentiate(point, p.k) ELSE RaisedPoint
             z_bytes == IF z_point.ok THEN EncodePoint(z_point) ELSE RaisedBytes
         IN  IF z_bytes.ok
             THEN Round2Z(p, Tail(v_hashed), Append(z, z_bytes.bytes))
             ELSE RaisedZ

RaisedPairs == [ok |-> FALSE, w_pairs |-> <<>>]

\* The loop of lines 123-129 over the rest of self.pairs (in iteration order),
\* w_pairs so far, r encryptions made so far.
RECURSIVE Round2Pairs(_, _, _, _)
Round2Pairs(p, order, w_pairs, r) ==
    IF order = <<>>
    THEN [ok |-> TRUE, w_pairs |-> w_pairs]
    ELSE LET w_hash == hash_to_curve(Head(order).w, p.seed)
             w_exp == IF w_hash.ok THEN exponentiate(w_hash, p.k) ELSE RaisedPoint
             enc_t == Encrypt(p.key_pair.public_key, Head(order).t, r + 1)
             w_bytes == IF w_exp.ok THEN EncodePoint(w_exp) ELSE RaisedBytes
         IN  IF w_bytes.ok /\ Encodable(p.key_pair.public_key, Head(order).t)
             THEN Round2Pairs(p, Tail(order),
                              Append(w_pairs, [point |-> w_bytes.bytes, ct |-> enc_t]),
                              r + 1)
             ELSE RaisedPairs

RaisedRound2 == [ok |-> FALSE, z |-> <<>>, w_pairs |-> <<>>]

\* Mutant of round2: the second shuffle moves the points of w_pairs and
\* leaves the ciphertexts where they were.
round2_SplitShuffle(p, v_hashed, zshuffle, order, wshuffle, r) ==
    LET zr == Round2Z(p, v_hashed, <<>>)
        wr == Round2Pairs(p, order, <<>>, r)
    IN  IF ~ zr.ok \/ ~ wr.ok
        THEN RaisedRound2
        ELSE [ok |-> TRUE,
              z |-> Permute(zr.z, zshuffle),
              w_pairs |-> [i \in 1..Len(wr.w_pairs) |->
                              [point |-> wr.w_pairs[wshuffle[i]].point,
                               ct |-> wr.w_pairs[i].ct]]]

round2(p, v_hashed, zshuffle, order, wshuffle, r) ==
    LET zr == Round2Z(p, v_hashed, <<>>)
        wr == Round2Pairs(p, order, <<>>, r)
    IN  IF ~ zr.ok \/ ~ wr.ok
        THEN RaisedRound2
        ELSE [ok |-> TRUE,
              z |-> Permute(zr.z, zshuffle),
              w_pairs |-> Permute(wr.w_pairs, wshuffle)]

\* ---------------------------------------------------------- Party1.round3

RaisedZPoints == [ok |-> FALSE, z_points |-> {}]

\* Mutant of Round3Z: each decoded point replaces z_points instead of joining it.
RECURSIVE Round3Z_KeepLast(_, _)
Round3Z_KeepLast(z, z_points) ==
    IF z = <<>>
    THEN [ok |-> TRUE, z_points |-> z_points]
    ELSE LET point == DecodePoint(Head(z))
         IN  IF point.ok
             THEN Round3Z_KeepLast(Tail(z), {<<point.x, point.y>>})
             ELSE RaisedZPoints

\* The loop of lines 81-84.
RECURSIVE Round3Z(_, _)
Round3Z(z, z_points) ==
    IF z = <<>>
    THEN [ok |-> TRUE, z_points |-> z_points]
    ELSE LET point == DecodePoint(Head(z))
         IN  IF point.ok
             THEN Round3Z(Tail(z), z_points \cup {<<point.x, point.y>>})
             ELSE RaisedZPoints

RaisedIntersection == [ok |-> FALSE, intersection |-> <<>>]

\* Line 91: the membership test of the exponentiated point in z_points.
InZ(w_exp, z_points) == <<w_exp.x, w_exp.y>> \in z_points

\* Mutant of Round3Pairs: a point of Z that matched is used up, so a second
\* pair with the same point no longer matches.
RECURSIVE Round3Pairs_Consume(_, _, _, _)
Round3Pairs_Consume(p, w_pairs, z_points, intersection) ==
    IF w_pairs = <<>>
    THEN [ok |-> TRUE, intersection |-> intersection]
    ELSE LET w_point == DecodePoint(Head(w_pairs).point)
             w_exp == IF w_point.ok THEN exponentiate(w_point, p.k) ELSE RaisedPoint
         IN  IF w_exp.ok
             THEN IF InZ(w_exp, z_points)
                  THEN Round3Pairs_Consume(p, Tail(w_pairs),
                                           z_points \ {<<w_exp.x, w_exp.y>>},
                                           Append(intersection, Head(w_pairs).ct))
                  ELSE Round3Pairs_Consume(p, Tail(w_pairs), z_points, intersection)
             ELSE RaisedIntersection

\* The loop of lines 87-92 over the rest of w_pairs, intersection so far.
RECURSIVE Round3Pairs(_, _, _, _)
Round3Pairs(p, w_pairs, z_points, intersection) ==
    IF w_pairs = <<>>
    THEN [ok |-> TRUE, intersection |-> intersection]
    ELSE LET w_point == DecodePoint(Head(w_pairs).point)
             w_exp == IF w_point.ok THEN exponentiate(w_point, p.k) ELSE RaisedPoint
         IN  IF w_exp.ok
             THEN Round3Pairs(p, Tail(w_pairs), z_points,
                              IF InZ(w_exp, z_points)
                              THEN Append(intersection, Head(w_pairs).ct)
                              ELSE intersection)
             ELSE RaisedIntersection

\* Lines 99-101: intersection[0], then + each of intersection[1:].
RECURSIVE SumLoop(_, _)
SumLoop(sum_ciphertext, rest) ==
    IF rest = <<>>
    THEN sum_ciphertext
    ELSE SumLoop(AddCipher(sum_ciphertext, Head(rest)), Tail(rest))

\* Mutant of Refresh: the sum is returned as it is, line 103 left out.
Refresh_Skipped(sum_ciphertext, public_key, r) == sum_ciphertext

\* Lines 102-103: the ARefresh of a non-empty sum.
Refresh(sum_ciphertext, public_key, r) ==
    AddCipher(sum_ciphertext, Encrypt(public_key, 0, r))

RaisedRound3 == [ok |-> FALSE, cardinality |-> -1, sum_ciphertext |-> NoCipher]

round3(p, z, w_pairs, r) ==
    LET zr == Round3Z(z, {})
        ir == IF zr.ok
              THEN Round3Pairs(p, w_pairs, zr.z_points, <<>>)
              ELSE RaisedIntersection
        cardinality == Len(ir.intersection)
    IN  IF ~ ir.ok
        THEN RaisedRound3
        ELSE IF p.other_public_key = NoKey
        THEN RaisedRound3                 \* None.encrypt: AttributeError
        ELSE [ok |-> TRUE,
              cardinality |-> cardinality,
              sum_ciphertext |->
                  IF cardinality = 0
                  THEN Encrypt(p.other_public_key, 0, r + 1)
                  ELSE Refresh(SumLoop(ir.intersection[1], Tail(ir.intersection)),
                               p.other_public_key, r + 1)]

\* ---------------------------------------------------------- Party2.output

output(p, sum_ciphertext) == Decrypt(p.key_pair, sum_ciphertext)

\* ------------------------------------------------------------------ state

VARIABLES
    p1,                 \* Party1: identifiers, k, seed, key_pair, other_public_key
    p2,                 \* Party2: pairs, k, seed, key_pair, other_public_key
    pc,                 \* the position of run_protocol
    v_hashed,           \* run_protocol's local: the round1 message
    z,                  \* run_protocol's local: Z of the round2 message
    w_pairs,            \* run_protocol's local: W_pairs of the round2 message
    cardinality,        \* run_protocol's local (-1: not assigned)
    sum_ciphertext,     \* run_protocol's local (NoCipher: not assigned)
    intersection_sum,   \* run_protocol's local (-1: not assigned)
    rng,                \* the number of encryption randomness drawn so far
    hist,               \* the methods called so far, in order
    ret,                \* the last call: its method, whether it returned, and
                        \* the positions of the undecodable points in its argument
    grp,                \* a caller of DDHGroup.exponentiate: its point, its two
                        \* scalars and the two results
    hsh,                \* a call of DDHGroup.hash_to_curve: its arguments, its
                        \* counter i and what it returned
    runs                \* the outcomes of the calls of run_protocol already
                        \* made on p1 and p2

vars == <<p1, p2, pc, v_hashed, z, w_pairs, cardinality, sum_ciphertext,
          intersection_sum, rng, hist, ret, grp, hsh, runs>>

Pair(w, t) == [w |-> w, t |-> t]
PairSets == {W \in SUBSET [w : Identifiers, t : Values] : Cardinality(W) <= MaxPairs}

\* Party.__init__ (lines 49-55) with the subclass constructors (65-67, 107-110).
NewParty1(identifiers, seed, k) ==
    [identifiers |-> identifiers, k |-> k, seed |-> seed,
     key_pair |-> NoKeyPair, other_public_key |-> NoKey]

NewParty2(pairs, seed, k) ==
    [pairs |-> pairs, k |-> k, seed |-> seed,
     key_pair |-> P2KeyPair, other_public_key |-> NoKey]

NoGroup ==
    [pc |-> "idle", point |-> RaisedPoint, a |-> 1, b |-> 1,
     ab |-> RaisedPoint, ba |-> RaisedPoint]

NoRet == [op |-> "none", ok |-> TRUE, bad |-> {}]

NoHash ==
    [pc |-> "idle", identifier |-> "user1", seed |-> "seedA", i |-> 0,
     point |-> RaisedPoint]

\* run_protocol not entered yet: its locals unassigned, no method called.
NothingCalled ==
    /\ pc = "setup"
    /\ v_hashed = <<>>
    /\ z = <<>>
    /\ w_pairs = <<>>
    /\ cardinality = -1
    /\ sum_ciphertext = NoCipher
    /\ intersection_sum = -1
    /\ rng = 0
    /\ hist = <<>>
    /\ ret = NoRet
    /\ runs = <<>>

\* Both parties constructed, each with the seed and the exponent its own
\* constructor drew (test.py lines 17 and 19 overwrite both seeds with one).
Init ==
    /\ \E identifiers \in SUBSET Identifiers, seed \in Seeds, k \in Scalars :
           p1 = NewParty1(identifiers, seed, k)
    /\ \E pairs \in PairSets, seed \in Seeds, k \in Scalars :
           p2 = NewParty2(pairs, seed, k)
    /\ NothingCalled
    /\ grp = NoGroup
    /\ hsh = NoHash

\* An encoded point from_encoded_point rejects.
BadBytes == <<2, 0>>
BadPositions(points) == {i \in 1..Len(points) : ~ DecodePoint(points[i]).ok}
PointsOf(pairs) == [i \in 1..Len(pairs) |-> pairs[i].point]

\* ------------------------------------------------- the methods as actions

\* Party.set_other_public_key (lines 61-62).
set_other_public_key(public_key) ==
    /\ p1' = [p1 EXCEPT !.other_public_key = public_key]
    /\ hist' = Append(hist, "setup")
    /\ ret' = [op |-> "setup", ok |-> TRUE, bad |-> {}]
    /\ UNCHANGED <<p2, v_hashed, z, w_pairs, cardinality, sum_ciphertext,
                   intersection_sum, rng, grp, hsh, runs>>

\* v_hashed = p1.round1()
CallRound1 ==
    \E order \in Orders(p1.identifiers), shuffle \in Perms(Cardinality(p1.identifiers)) :
        LET r == round1(p1, order, shuffle)
        IN  /\ v_hashed' = IF r.ok THEN r.result ELSE v_hashed
            /\ hist' = Append(hist, "round1")
            /\ ret' = [op |-> "round1", ok |-> r.ok, bad |-> {}]
            /\ UNCHANGED <<p1, p2, z, w_pairs, cardinality, sum_ciphertext,
                           intersection_sum, rng, grp, hsh, runs>>

\* z, w_pairs = p2.round2(msg)
CallRound2(msg) ==
    \E zshuffle \in Perms(Len(msg)), order \in Orders(p2.pairs),
       wshuffle \in Perms(Cardinality(p2.pairs)) :
        LET r == round2(p2, msg, zshuffle, order, wshuffle, rng)
        IN  /\ z' = IF r.ok THEN r.z ELSE z
            /\ w_pairs' = IF r.ok THEN r.w_pairs ELSE w_pairs
            /\ rng' = IF r.ok THEN rng + Cardinality(p2.pairs) ELSE rng
            /\ hist' = Append(hist, "round2")
            /\ ret' = [op |-> "round2", ok |-> r.ok, bad |-> BadPositions(msg)]
            /\ UNCHANGED <<p1, p2, v_hashed, cardinality, sum_ciphertext,
                           intersection_sum, grp, hsh, runs>>

\* cardinality, sum_ciphertext = p1.round3(zmsg, wmsg)
CallRound3(zmsg, wmsg) ==
    LET r == round3(p1, zmsg, wmsg, rng)
    IN  /\ cardinality' = IF r.ok THEN r.cardinality ELSE cardinality
        /\ sum_ciphertext' = IF r.ok THEN r.sum_ciphertext ELSE sum_ciphertext
        /\ rng' = IF r.ok THEN rng + 1 ELSE rng
        /\ hist' = Append(hist, "round3")
        /\ ret' = [op |-> "round3", ok |-> r.ok,
                   bad |-> BadPositions(zmsg) \cup
                           {Len(zmsg) + i : i \in BadPositions(PointsOf(wmsg))}]
        /\ UNCHANGED <<p1, p2, v_hashed, z, w_pairs, intersection_sum, grp, hsh, runs>>

\* Mutant of CallOutput: Party2 clears its exponent once it has the sum.
CallOutput_Zeroize(ct) ==
    LET r == output(p2, ct)
    IN  /\ intersection_sum' = IF r.ok THEN r.value ELSE intersection_sum
        /\ hist' = Append(hist, "output")
        /\ ret' = [op |-> "output", ok |-> r.ok, bad |-> {}]
        /\ p2' = [p2 EXCEPT !.k = 0]
        /\ UNCHANGED <<p1, v_hashed, z, w_pairs, cardinality, sum_ciphertext,
                       rng, grp, hsh, runs>>

\* intersection_sum = p2.output(ct)
CallOutput(ct) ==
    LET r == output(p2, ct)
    IN  /\ intersection_sum' = IF r.ok THEN r.value ELSE intersection_sum
        /\ hist' = Append(hist, "output")
        /\ ret' = [op |-> "output", ok |-> r.ok, bad |-> {}]
        /\ UNCHANGED <<p1, p2, v_hashed, z, w_pairs, cardinality, sum_ciphertext,
                       rng, grp, hsh, runs>>

\* ----------------------------------------------------------- run_protocol

\* Where run_protocol goes after a call: on, or out with the exception.
After(next) == pc' = IF ret'.ok THEN next ELSE "raised"

\* Mutant of Setup: Party1 is handed the whole key pair.
Setup_HandsKeyPair ==
    pc = "setup" /\ set_other_public_key(p2.key_pair) /\ After("round1")

Setup == pc = "setup" /\ set_other_public_key(p2.key_pair.public_key) /\ After("round1")
Round1 == pc = "round1" /\ CallRound1 /\ After("round2")
Round2 == pc = "round2" /\ CallRound2(v_hashed) /\ After("round3")
Round3 == pc = "round3" /\ CallRound3(z, w_pairs) /\ After("output")
Output == pc = "output" /\ CallOutput(sum_ciphertext) /\ After("done")

Next == Setup \/ Round1 \/ Round2 \/ Round3 \/ Output

Spec == Init /\ [][Next]_vars

\* ------------------------------------------------ properties of run_protocol

\* The pairs of Party2 whose identifier Party1 holds.
Matching == {pr \in p2.pairs : pr.w \in p1.identifiers}

RECURSIVE SumOfValues(_)
SumOfValues(pairs) ==
    IF pairs = {}
    THEN 0
    ELSE LET pr == CHOOSE pr \in pairs : TRUE
         IN  pr.t + SumOfValues(pairs \ {pr})

DistinctIdentifiers == \A a, b \in p2.pairs : a.w = b.w => a = b
SameSeed == p1.seed = p2.seed
NoWrap == SumOfValues(p2.pairs) <= MaxInt(p2.key_pair.public_key)
Finished == pc \in {"done", "raised"}

\* C1: with one seed on both sides and distinct identifiers in W, run_protocol
\* returns, and the cardinality it returns is the number of pairs of W whose
\* identifier is in V.
C1_CardinalityIsIntersection ==
    (Finished /\ SameSeed /\ DistinctIdentifiers)
        => (pc = "done" /\ cardinality = Cardinality(Matching))

\* C2: with one seed on both sides, distinct identifiers in W and values that
\* cannot wrap the plaintext modulus, run_protocol returns, and the sum it
\* returns is the sum of t over the pairs of W whose identifier is in V.
C2_SumIsIntersectionSum ==
    (Finished /\ SameSeed /\ DistinctIdentifiers /\ NoWrap)
        => (pc = "done" /\ intersection_sum = SumOfValues(Matching))

\* C3: once round1 and round2 have both hashed identifiers, the seed Party1
\* hashed with is the seed Party2 hashed with.
C3_SeedIsShared ==
    (pc \in {"round3", "output", "done"} /\ p1.identifiers # {} /\ p2.pairs # {})
        => p1.seed = p2.seed

\* C4: when V and W share no identifier (V or W may be empty), run_protocol
\* returns cardinality 0 and sum 0.
C4_EmptyIntersection ==
    (Finished /\ Matching = {})
        => (pc = "done" /\ cardinality = 0 /\ intersection_sum = 0)

\* C5: the ciphertext round3 returns holds an encryption randomness drawn
\* inside round3 under Party2's public key, whether or not a pair matched, and
\* is none of the ciphertexts received in W_pairs.
C5_Rerandomized ==
    pc \in {"output", "done"} =>
        /\ sum_ciphertext.pk = p2.key_pair.public_key
        /\ rng \in sum_ciphertext.rs
        /\ \A i \in 1..Len(w_pairs) :
               /\ rng \notin w_pairs[i].ct.rs
               /\ sum_ciphertext # w_pairs[i].ct

\* C5 witness: round3 returned with exactly one matching pair.
C5_Witness == pc = "output" /\ cardinality = 1 /\ Len(w_pairs) = 2

\* The outcome of run_protocol when every set is iterated in one fixed order
\* and no shuffle moves anything.
Identity(n) == [i \in 1..n |-> i]
FixedOrder(S) == CHOOSE order \in Orders(S) : TRUE
ReferenceOutcome ==
    LET r1 == round1(p1, FixedOrder(p1.identifiers),
                     Identity(Cardinality(p1.identifiers)))
        r2 == round2(p2, r1.result, Identity(Len(r1.result)),
                     FixedOrder(p2.pairs), Identity(Cardinality(p2.pairs)), 0)
        r3 == round3([p1 EXCEPT !.other_public_key = p2.key_pair.public_key],
                     r2.z, r2.w_pairs, Cardinality(p2.pairs))
    IN  IF r1.ok /\ r2.ok /\ r3.ok
        THEN LET out == output(p2, r3.sum_ciphertext)
             IN  IF out.ok
                 THEN <<"done", r3.cardinality, out.value>>
                 ELSE <<"raised", -1, -1>>
        ELSE <<"raised", -1, -1>>

\* C6: whatever the iteration orders of V and W and the outcomes of the three
\* shuffles, run_protocol ends as it does with fixed orders and no shuffling:
\* the same (cardinality, sum), or an exception in both.
C6_OrderIndependent ==
    Finished =>
        <<pc, IF pc = "done" THEN cardinality ELSE -1,
              IF pc = "done" THEN intersection_sum ELSE -1>> = ReferenceOutcome

\* C6 witness: a run over two identifiers and two pairs that returned both
\* matches, with Z and W_pairs each in an order other than the round1 message's.
C6_Witness ==
    /\ pc = "done"
    /\ Cardinality(p1.identifiers) = 2
    /\ Cardinality(p2.pairs) = 2
    /\ cardinality = 2
    /\ intersection_sum = 3
    /\ z[1][2] # v_hashed[1][2]
    /\ w_pairs[1].point[2] # z[1][2]

\* ------------------------------------------- the methods called directly

\* The arguments a caller can hand to round2 and round3: a message as it was
\* returned, or with one of its points replaced by bytes that do not decode.
Inputs(msg) == {msg} \cup {[msg EXCEPT ![i] = BadBytes] : i \in 1..Len(msg)}
PairInputs(msg) ==
    {msg} \cup {[msg EXCEPT ![i].point = BadBytes] : i \in 1..Len(msg)}
Ciphertexts == ({sum_ciphertext} \cup {w_pairs[i].ct : i \in 1..Len(w_pairs)}) \ {NoCipher}

ApiSetup ==
    /\ Len(hist) < MaxCalls
    /\ set_other_public_key(p2.key_pair.public_key)
    /\ UNCHANGED pc

ApiRound1 == Len(hist) < MaxCalls /\ CallRound1 /\ UNCHANGED pc

ApiRound2 ==
    /\ Len(hist) < MaxCalls
    /\ \E msg \in Inputs(v_hashed) : CallRound2(msg)
    /\ UNCHANGED pc

ApiRound3 ==
    /\ Len(hist) < MaxCalls
    /\ \E zmsg \in Inputs(z), wmsg \in PairInputs(w_pairs) : CallRound3(zmsg, wmsg)
    /\ UNCHANGED pc

ApiOutput ==
    /\ Len(hist) < MaxCalls
    /\ \E ct \in Ciphertexts : CallOutput(ct)
    /\ UNCHANGED pc

NextApi == ApiSetup \/ ApiRound1 \/ ApiRound2 \/ ApiRound3 \/ ApiOutput

\* The parties the direct calls are made on: as constructed, with exponents
\* that pass derive_private_key, the seeds as test.py sets them, and at most
\* one pair on Party2's side.
InitApi ==
    /\ Init
    /\ p1.k \in {1, 2}
    /\ p2.k \in {1, 2}
    /\ p1.seed = p2.seed
    /\ Cardinality(p2.pairs) <= 1

SpecApi == InitApi /\ [][NextApi]_vars

\* C9: a call of round2 or round3 whose argument holds a point that does not
\* decode, at whatever position, ends with an exception and assigns nothing:
\* Z, W_pairs, the cardinality and the ciphertext stay as they were.
C9_NoPartialResult ==
    [][(hist' # hist /\ ret'.op \in {"round2", "round3"} /\ ret'.bad # {})
          => /\ ~ ret'.ok
             /\ z' = z
             /\ w_pairs' = w_pairs
             /\ cardinality' = cardinality
             /\ sum_ciphertext' = sum_ciphertext]_vars

\* C9 witness: round3 raised on a message whose first point decodes and whose
\* second does not.
C9_Witness == ret.op = "round3" /\ ~ ret.ok /\ 1 \notin ret.bad /\ 2 \in ret.bad

ProtocolOrder == <<"setup", "round1", "round2", "round3", "output">>
CalledBefore(op) == \E i \in 1..(Len(hist) - 1) : hist[i] = op

\* C10: a round returns a result only when called in the order setup,
\* round1, round2, round3, output: round3 returns only after setup, round1 and
\* round2, output only after round3, and no round returns a second time.
C10_OutOfOrderRejected ==
    (ret.op \in {"round1", "round2", "round3", "output"} /\ ret.ok) =>
        /\ ret.op = "round3" => hist = SubSeq(ProtocolOrder, 1, 4)
        /\ ret.op = "output" => CalledBefore("round3")
        /\ ~ CalledBefore(ret.op)

\* --------------------------------------------- DDHGroup.exponentiate alone

\* exponentiate(exponentiate(point, first), second); an exception of the inner
\* call ends the outer one.
Twice(point, first, second) ==
    LET inner == exponentiate(point, first)
    IN  IF inner.ok THEN exponentiate(inner, second) ELSE RaisedPoint

InitGroup ==
    /\ p1 = NewParty1({}, "seedA", 1)
    /\ p2 = NewParty2({}, "seedA", 1)
    /\ pc = "setup"
    /\ v_hashed = <<>>
    /\ z = <<>>
    /\ w_pairs = <<>>
    /\ cardinality = -1
    /\ sum_ciphertext = NoCipher
    /\ intersection_sum = -1
    /\ rng = 0
    /\ hist = <<>>
    /\ ret = NoRet
    /\ hsh = NoHash
    /\ runs = <<>>
    /\ \E point \in CurvePoints, a \in 1..(GroupOrder - 1), b \in 1..(GroupOrder - 1) :
           grp = [NoGroup EXCEPT !.pc = "start", !.point = point, !.a = a, !.b = b]

ExpAB ==
    /\ grp.pc = "start"
    /\ grp' = [grp EXCEPT !.pc = "ab", !.ab = Twice(grp.point, grp.a, grp.b)]
    /\ UNCHANGED <<p1, p2, pc, v_hashed, z, w_pairs, cardinality, sum_ciphertext,
                   intersection_sum, rng, hist, ret, hsh, runs>>

ExpBA ==
    /\ grp.pc = "ab"
    /\ grp' = [grp EXCEPT !.pc = "done", !.ba = Twice(grp.point, grp.b, grp.a)]
    /\ UNCHANGED <<p1, p2, pc, v_hashed, z, w_pairs, cardinality, sum_ciphertext,
                   intersection_sum, rng, hist, ret, hsh, runs>>

NextGroup == ExpAB \/ ExpBA

SpecGroup == InitGroup /\ [][NextGroup]_vars

\* C7: for a point of the curve and scalars a, b in [1, q-1],
\* exponentiate(exponentiate(P, a), b) and exponentiate(exponentiate(P, b), a)
\* are the same point.
C7_ExponentiateCommutes == grp.pc = "done" => grp.ab = grp.ba

\* ------------------------------------------------------------ C11: secrets

\* What a session transmits: the encoded points of the round1 message, of Z
\* and of W_pairs, the ciphertexts of W_pairs and of the round3 result, and
\* the key handed over at setup.
SentPoints ==
    {v_hashed[i] : i \in 1..Len(v_hashed)} \cup {z[i] : i \in 1..Len(z)}
        \cup {w_pairs[i].point : i \in 1..Len(w_pairs)}
SentCiphertexts == {w_pairs[i].ct : i \in 1..Len(w_pairs)} \cup {sum_ciphertext}
SentKeys == {p1.other_public_key} \cup {c.pk : c \in SentCiphertexts}

\* C11: every transmitted value is a compressed point (a prefix and an
\* x-coordinate), a ciphertext (public key, residue, randomness) or a public
\* key (owner, modulus); none has a component holding k or Party2's private
\* key, and Party1 holds no key pair and no private key: what setup stored is
\* Party2's public key.
C11_SecretsStayHome ==
    /\ \A pt \in SentPoints :
           Len(pt) = 2 /\ pt[1] \in {2, 3} /\ pt[2] \in 0..(FieldSize - 1)
    /\ \A c \in SentCiphertexts : DOMAIN c = {"pk", "m", "rs"}
    /\ \A key \in SentKeys : DOMAIN key = {"owner", "n"}
    /\ p1.key_pair = NoKeyPair
    /\ pc # "setup" => p1.other_public_key = p2.key_pair.public_key

\* C11 witness: a session that transmitted every message and the result.
C11_Witness ==
    /\ pc = "done"
    /\ v_hashed # <<>>
    /\ w_pairs # <<>>
    /\ sum_ciphertext # NoCipher

\* ------------------------------------------------------- C12: duplicates

\* C12: Party2 takes in pairs that repeat an identifier, and when round3
\* returns in a session with one seed, it has counted every pair on its own:
\* the cardinality is the number of pairs (not of identifiers) whose identifier
\* is in V, and the ciphertext holds the sum of the values of all these pairs.
C12_DuplicatesCountedEach ==
    (pc \in {"output", "done"} /\ SameSeed /\ ~ DistinctIdentifiers) =>
        /\ cardinality = Cardinality(Matching)
        /\ sum_ciphertext.m = SumOfValues(Matching) % p2.key_pair.public_key.n

\* C12 witness: one identifier of V carried by two pairs, both counted.
C12_Witness ==
    /\ pc = "done"
    /\ \E a, b \in Matching : a.w = b.w /\ a.t # b.t
    /\ cardinality = 2
    /\ intersection_sum = 3

\* ------------------------------------------------------------ C13: scalar

\* C13: the secret scalar of each party lies in [1, q-1], q the order of the
\* group.
C13_ScalarInRange ==
    /\ p1.k \in 1..(GroupOrder - 1)
    /\ p2.k \in 1..(GroupOrder - 1)

\* ---------------------------------------------------------- C14: overflow

\* Sessions over three identifiers with values up to the largest one the
\* cipher encodes: Party1 holds all three, Party2 one pair for each, both
\* with one seed and exponent 1 (the sessions that reach output).
WideIdentifiers == Identifiers \cup {"user3"}
WideValues == {1, MaxInt(P2PublicKey)}

InitWide ==
    /\ p1 = NewParty1(WideIdentifiers, "seedA", 1)
    /\ \E t \in [WideIdentifiers -> WideValues] :
           p2 = NewParty2({[w |-> w, t |-> t[w]] : w \in WideIdentifiers}, "seedA", 1)
    /\ NothingCalled
    /\ grp = NoGroup
    /\ hsh = NoHash

SpecWide == InitWide /\ [][Next]_vars

\* C14: no session returns a sum that wrapped: the sum run_protocol returns
\* is the sum of the values of the matching pairs (a session whose values
\* could wrap having been rejected at setup).
C14_NoWrappedSum ==
    pc = "done" => intersection_sum = SumOfValues(Matching)

\* --------------------------------------------------------- C15: teardown

\* C15: once a call has raised, the session is torn down: the exponents and
\* Party2's private key are zeroized, and no round called afterwards returns
\* a result.
C15_TornDownAfterError ==
    [][(~ ret.ok) =>
          /\ p1.k = 0
          /\ p2.k = 0
          /\ p2.key_pair.private_key = "none"
          /\ (hist' # hist /\ ret'.op \in {"round1", "round2", "round3", "output"})
                 => ~ ret'.ok]_vars

\* ------------------------------------------------------------ C16: round2

\* What round2 makes of one element of the round1 message, and the point it
\* makes of one pair.
ExpectedZ(element) == EncodePoint(exponentiate(DecodePoint(element), p2.k)).bytes
ExpectedPoint(pr) ==
    EncodePoint(exponentiate(hash_to_curve(pr.w, p2.seed), p2.k)).bytes

\* C16: when round2 returns, Z has one element for each element of the round1
\* message, each the encoding of exponentiate(decoded element, k2), in some
\* order; and W_pairs has one entry for each pair (w, t), in some order, whose
\* point is the encoding of exponentiate(hash_to_curve(w, seed), k2) and whose
\* ciphertext encrypts, under Party2's key, the t of that same pair.
C16_Round2Tier ==
    (ret.op = "round2" /\ ret.ok) =>
        /\ Len(z) = Len(v_hashed)
        /\ \E perm \in Perms(Len(z)) :
               \A i \in 1..Len(z) : z[i] = ExpectedZ(v_hashed[perm[i]])
        /\ Len(w_pairs) = Cardinality(p2.pairs)
        /\ \E order \in Orders(p2.pairs) :
               \A i \in 1..Len(w_pairs) :
                   /\ w_pairs[i].point = ExpectedPoint(order[i])
                   /\ w_pairs[i].ct.pk = p2.key_pair.public_key
                   /\ w_pairs[i].ct.m = order[i].t % p2.key_pair.public_key.n

\* C16 witness: round2 returned two elements of Z in an order other than the
\* message's, and two pairs with different points and different values.
C16_Witness ==
    /\ ret.op = "round2" /\ ret.ok
    /\ Len(z) = 2 /\ z[1] # ExpectedZ(v_hashed[1])
    /\ Len(w_pairs) = 2
    /\ w_pairs[1].point # w_pairs[2].point
    /\ w_pairs[1].ct.m # w_pairs[2].ct.m

\* ----------------------------------------------------- C17: hash_to_curve

\* hash_to_curve run one iteration at a time, on the identifiers of the
\* sessions and on "user0", an identifier none of whose candidates has a
\* point (it stands for an input whose 1000 digests all miss the curve).
HashIdentifiers == WideIdentifiers \cup {"user0"}

InitHash ==
    /\ p1 = NewParty1({}, "seedA", 1)
    /\ p2 = NewParty2({}, "seedA", 1)
    /\ NothingCalled
    /\ grp = NoGroup
    /\ \E identifier \in HashIdentifiers, seed \in Seeds :
           hsh = [NoHash EXCEPT !.pc = "loop", !.identifier = identifier,
                                !.seed = seed]

\* One pass of the loop body (lines 23-31): candidate i is returned if the
\* library accepts it, and the loop goes on to i + 1 if it raises ValueError.
HashTry ==
    /\ hsh.pc = "loop"
    /\ hsh.i < HashTries
    /\ LET point == PointFromX(Digest(hsh.seed, hsh.identifier, hsh.i))
       IN  hsh' = IF point.ok
                  THEN [hsh EXCEPT !.pc = "returned", !.point = point]
                  ELSE [hsh EXCEPT !.i = hsh.i + 1]
    /\ UNCHANGED <<p1, p2, pc, v_hashed, z, w_pairs, cardinality, sum_ciphertext,
                   intersection_sum, rng, hist, ret, grp, runs>>

\* Line 32: the loop is exhausted.
HashRaise ==
    /\ hsh.pc = "loop"
    /\ hsh.i >= HashTries
    /\ hsh' = [hsh EXCEPT !.pc = "raised"]
    /\ UNCHANGED <<p1, p2, pc, v_hashed, z, w_pairs, cardinality, sum_ciphertext,
                   intersection_sum, rng, hist, ret, grp, runs>>

NextHash == HashTry \/ HashRaise

SpecHash == InitHash /\ [][NextHash]_vars

Accepted(i) == PointFromX(Digest(hsh.seed, hsh.identifier, i)).ok

\* C17: hash_to_curve ends within 1000 candidate counters; what it returns is
\* a point of the curve, the one built from the first counter, from 0 upward,
\* whose candidate is accepted; it raises when none of the 1000 candidates is
\* accepted, and only then. The function the rounds call returns the same
\* point.
C17_FirstAcceptedCounter ==
    /\ hsh.i <= HashTries
    /\ hsh.pc = "returned" =>
           /\ hsh.i < HashTries
           /\ OnCurve(hsh.point.x, hsh.point.y)
           /\ hsh.point = PointFromX(Digest(hsh.seed, hsh.identifier, hsh.i))
           /\ \A j \in 0..(hsh.i - 1) : ~ Accepted(j)
           /\ hash_to_curve(hsh.identifier, hsh.seed) = hsh.point
    /\ hsh.pc = "raised" => \A j \in 0..(HashTries - 1) : ~ Accepted(j)

\* C17 witness: a call that rejected at least one candidate and returned the
\* point of a later one.
C17_Witness == hsh.pc = "returned" /\ hsh.i > 0

\* ------------------------------------------------------------- C18: frame

\* What a call of run_protocol gave its caller: the pair it returned, or the
\* exception.
Outcome ==
    IF pc = "done"
    THEN <<"done", cardinality, intersection_sum>>
    ELSE <<"raised", -1, -1>>

\* The caller notes the outcome and calls run_protocol on the same two
\* parties again: the locals of the new call are unassigned, the parties are
\* what the last call left.
Again ==
    /\ pc \in {"done", "raised"}
    /\ Len(runs) + 1 < MaxRuns
    /\ runs' = Append(runs, Outcome)
    /\ pc' = "setup"
    /\ v_hashed' = <<>>
    /\ z' = <<>>
    /\ w_pairs' = <<>>
    /\ cardinality' = -1
    /\ sum_ciphertext' = NoCipher
    /\ intersection_sum' = -1
    /\ UNCHANGED <<p1, p2, rng, hist, ret, grp, hsh>>

NextRepeat == Next \/ Again

SpecRepeat == Init /\ [][NextRepeat]_vars

\* C18: no step changes Party2, and none changes Party1 except setup storing
\* Party2's public key in other_public_key; Party1's key_pair stays unset;
\* and a call of run_protocol on parties it was already called on ends as the
\* first call did, with the same (cardinality, sum) or with an exception.
C18_Frame ==
    [][/\ p2' = p2
       /\ p1'.key_pair = NoKeyPair
       /\ \/ p1' = p1
          \/ /\ ret'.op = "setup"
             /\ p1' = [p1 EXCEPT !.other_public_key = p2.key_pair.public_key]
       /\ (pc' \in {"done", "raised"} /\ runs' # <<>>) => Outcome' = runs'[1]]_vars

\* C18 witness: a second call of run_protocol returned a non-empty
\* intersection, Party1 holding the key the first call stored.
C18_Witness ==
    /\ runs # <<>>
    /\ pc = "done"
    /\ cardinality >= 1
    /\ p1.other_public_key = p2.key_pair.public_key

====
